---- MODULE Spec2Model ----
(***************************************************************************)
(* Model of the financial-tool agent pipeline:                            *)
(*   orchestrator/agent_coordinator.py  AgentCoordinator.process_query     *)
(*   agents/api_agent.py                APIAgent.fetch_stock_data          *)
(*   agents/scraping_agent.py           ScrapingAgent.crawl_financial_news *)
(*   agents/retriever_agent.py          RetrieverAgent                     *)
(*   agents/analysis_agent.py           AnalysisAgent                      *)
(*   agents/voice_agent.py              VoiceAgent                         *)
(*                                                                         *)
(* Python strings are sequences of one-character strings, None is the      *)
(* empty tuple, a dict is a sequence of [k, v] entries in insertion order, *)
(* and market caps are counted in millions of dollars.                     *)
(***************************************************************************)
EXTENDS Integers, Sequences, FiniteSets, TLC

VARIABLES
    pc,                 \* the stage process_query is about to execute, "DONE" or "RAISED"
    query,              \* process_query's argument
    tickers,            \* local `tickers` of process_query
    batch_ok,           \* whether yf.download returned (fetch_stock_data)
    qi,                 \* position of fetch_stock_data's per-ticker loop
    stock_data,         \* dict ticker -> quote record
    news_tasks,         \* state of each fetch_news_for_ticker task handed to asyncio.gather
    news_data,          \* dict ticker -> list of news items
    combined_docs,      \* local `combined_docs` of process_query
    document_store,     \* RetrieverAgent.document_store
    faiss_index,        \* RetrieverAgent.faiss_index
    contextual_results, \* local `contextual_results`
    risk_analysis,      \* local `risk_analysis`
    narrative_response, \* local `narrative_response`
    voice_response,     \* local `voice_response`
    raised,             \* the exception that left the last call, None if it returned
    stages,             \* history: the stages entered so far, in order
    quote_log,          \* history: dict ticker -> the provider outcome of its latest quote fetch
    news_log,           \* history: dict ticker -> the provider outcome of its latest news fetch
    last_call,          \* history: the last direct RetrieverAgent call and its arguments
    documents_arg,      \* the `documents` argument of the index_documents calls under study
    builds,             \* history: what each index_documents call made with it gave
    collab_log,         \* history: what the narrative model and the speech engine did
    runs                \* the locals of each of two process_query runs on one coordinator

vars == <<pc, query, tickers, batch_ok, qi, stock_data, news_tasks, news_data,
          combined_docs, document_store, faiss_index, contextual_results,
          risk_analysis, narrative_response, voice_response, raised, stages,
          quote_log, news_log, last_call, documents_arg, builds, collab_log,
          runs>>

-----------------------------------------------------------------------------
(* Bounds *)

\* longest ticker-extraction response text
MaxRespLen == 3
\* largest top_k of a direct semantic_search call
MaxTopK == 3
\* longest document list of a direct index_documents call
MaxDocs == 2

-----------------------------------------------------------------------------
(* Python values *)

None == <<>>

Min(a, b) == IF a < b THEN a ELSE b

\* s[:n]
Take(s, n) == SubSeq(s, 1, Min(n, Len(s)))

\* all sequences over S of length at most n
SeqsUpTo(S, n) == UNION {[1..k -> S] : k \in 0..n}

RECURSIVE LStrip(_)
LStrip(s) == IF s # <<>> /\ Head(s) = " " THEN LStrip(Tail(s)) ELSE s

RECURSIVE RStrip(_)
RStrip(s) == IF s # <<>> /\ s[Len(s)] = " " THEN RStrip(SubSeq(s, 1, Len(s) - 1)) ELSE s

\* str.strip()
Strip(s) == RStrip(LStrip(s))

\* str.upper()
Upper(s) == [i \in 1..Len(s) |-> IF s[i] = "a" THEN "A" ELSE s[i]]

\* str.split(','): one more part than there are commas, "" gives [""]
RECURSIVE Split(_)
Split(s) ==
    IF \A i \in 1..Len(s) : s[i] # ","
    THEN <<s>>
    ELSE LET k == CHOOSE i \in 1..Len(s) : s[i] = "," /\ \A j \in 1..(i - 1) : s[j] # ","
         IN  <<SubSeq(s, 1, k - 1)>> \o Split(SubSeq(s, k + 1, Len(s)))

\* dict operations; insertion order is kept and re-assigning a key keeps its place
DictKeys(d) == {d[i].k : i \in DOMAIN d}

DictHas(d, key) == key \in DictKeys(d)

DictGet(d, key) == d[CHOOSE i \in DOMAIN d : d[i].k = key].v

DictSet(d, key, val) ==
    IF DictHas(d, key)
    THEN [i \in DOMAIN d |-> IF d[i].k = key THEN [k |-> key, v |-> val] ELSE d[i]]
    ELSE Append(d, [k |-> key, v |-> val])

DictValues(d) == [i \in DOMAIN d |-> d[i].v]

\* mapping.get(key, default) on a record
Get(rec, key, default) == IF key \in DOMAIN rec THEN rec[key] ELSE default

RECURSIVE Flatten(_)
Flatten(ss) == IF ss = <<>> THEN <<>> ELSE Head(ss) \o Flatten(Tail(ss))

-----------------------------------------------------------------------------
(* Ticker extraction: AgentCoordinator._extract_tickers_with_gemini *)

FallbackTickers ==
    << <<"A", "A", "P", "L">>, <<"G", "O", "O", "G", "L">>,
       <<"M", "S", "F", "T">>, <<"A", "M", "Z", "N">> >>

RespAlphabet == {"a", ",", " "}

\* what llm_model.generate_content / response.text can do: raise, or give a text
Responses ==
    {[raises |-> TRUE, text |-> <<>>]}
    \cup {[raises |-> FALSE, text |-> s] : s \in SeqsUpTo(RespAlphabet, MaxRespLen)}

ParseTickers(text) ==
    LET parts == Split(Strip(text))
    IN  [i \in 1..Len(parts) |-> Upper(Strip(parts[i]))]

extract_tickers_with_gemini(resp) ==
    IF resp.raises
    THEN FallbackTickers
    ELSE LET parsed == ParseTickers(resp.text)
         IN  IF parsed # <<>> THEN parsed ELSE FallbackTickers

-----------------------------------------------------------------------------
(* Quote fetch: APIAgent.fetch_stock_data *)

\* yf.Ticker(t).info payloads: every field present, or none of them
FullInfo ==
    [longName |-> <<"C", "o">>, sector |-> <<"T", "e", "c", "h">>,
     marketCap |-> 2500000, trailingPE |-> <<28>>,
     fiftyTwoWeekHigh |-> <<200>>, fiftyTwoWeekLow |-> <<100>>,
     earningsDate |-> <<"Q", "1">>]

EmptyInfo == <<>>

\* what the provider can do for one ticker: stock.info raises, the price lookup
\* in the batch frame raises, or both succeed
QuoteOutcomes ==
    {[ok |-> FALSE, error |-> "info unavailable", info |-> EmptyInfo, price |-> 0],
     [ok |-> TRUE, error |-> "", info |-> FullInfo, price |-> 150],
     [ok |-> TRUE, error |-> "", info |-> EmptyInfo, price |-> 150]}

QuoteRecord(ticker, info, price) ==
    [current_price |-> price,
     company_name |-> Get(info, "longName", ticker),
     sector |-> Get(info, "sector", <<"N", "/", "A">>),
     market_cap |-> Get(info, "marketCap", 0),
     pe_ratio |-> Get(info, "trailingPE", None),
     week52_high |-> Get(info, "fiftyTwoWeekHigh", None),
     week52_low |-> Get(info, "fiftyTwoWeekLow", None),
     earnings_date |-> Get(info, "earningsDate", None)]

ErrorRecord(msg) == [error |-> msg]

IsError(rec) == "error" \in DOMAIN rec

\* fetch_ticker without the assignment in its except branch: a failed fetch
\* leaves no entry
fetch_ticker_unrecorded(stock, ticker, outcome) ==
    IF outcome.ok
    THEN DictSet(stock, ticker, QuoteRecord(ticker, outcome.info, outcome.price))
    ELSE stock

\* one pass of the per-ticker loop body, its try/except included
fetch_ticker(stock, ticker, outcome) ==
    DictSet(stock, ticker,
            IF outcome.ok
            THEN QuoteRecord(ticker, outcome.info, outcome.price)
            ELSE ErrorRecord(outcome.error))

\* the per-ticker loop over the whole list; outs[i] is what the provider does
\* at position i
RECURSIVE fetch_each(_, _, _)
fetch_each(stock, ts, outs) ==
    IF ts = <<>> THEN stock
    ELSE fetch_each(fetch_ticker(stock, Head(ts), Head(outs)), Tail(ts), Tail(outs))

\* the outer except: every ticker is marked failed
RECURSIVE batch_failed(_, _)
batch_failed(stock, ts) ==
    IF ts = <<>>
    THEN stock
    ELSE batch_failed(DictSet(stock, Head(ts), ErrorRecord("Batch fetch failed")), Tail(ts))

-----------------------------------------------------------------------------
(* News fetch: ScrapingAgent.crawl_financial_news *)

ArticlesPerSource == 3

SourceUrl(ticker) == <<"h", "/">> \o ticker \o <<"/", "n">>

\* a matching heading: its text, and its anchor ("none": no <a>, "href": an <a>
\* with href, "nohref": an <a> without href, on which ['href'] raises)
Heading(title, anchor) == [title |-> title, anchor |-> anchor]

\* what the news source can do for one ticker: requests.get raises, or a page
NewsOutcomes ==
    {[raises |-> TRUE, headings |-> <<>>],
     [raises |-> FALSE, headings |-> <<Heading(<<"n", "1">>, "none")>>],
     [raises |-> FALSE,
      headings |-> <<Heading(<<"n", "2">>, "href"), Heading(<<"n", "3">>, "nohref")>>]}

\* the loop over articles[:3]; an exception ends it and keeps what was appended
RECURSIVE parse_articles(_, _)
parse_articles(hs, url) ==
    IF hs = <<>> \/ Head(hs).anchor = "nohref"
    THEN <<>>
    ELSE <<[title |-> Head(hs).title,
            link |-> IF Head(hs).anchor = "href" THEN <<"l">> ELSE url,
            source |-> url]>>
         \o parse_articles(Tail(hs), url)

\* True when scraping the source raised inside the inner try
scrape_raised(outcome) ==
    outcome.raises
    \/ \E i \in 1..Min(ArticlesPerSource, Len(outcome.headings)) :
          outcome.headings[i].anchor = "nohref"

scrape_source(ticker, outcome) ==
    IF outcome.raises
    THEN <<>>
    ELSE parse_articles(Take(outcome.headings, ArticlesPerSource), SourceUrl(ticker))

fetch_news_for_ticker(news, ticker, outcome) ==
    DictSet(news, ticker, scrape_source(ticker, outcome))

\* a scheduler that may run any pending task next
ready_any_order(tasks, i) == tasks[i] = "pending"

\* loop.call_soon runs callbacks in the order they were registered: the tasks
\* start in creation order, and a task has no await, so it ends before the
\* next one starts
ready_in_creation_order(tasks, i) ==
    tasks[i] = "pending" /\ \A j \in 1..(i - 1) : tasks[j] = "done"

\* a wait that returns on the first finished task
gather_first_completed(tasks) == \E i \in DOMAIN tasks : tasks[i] = "done"

\* asyncio.gather returns once every task it was given is done
gather_settled(tasks) == \A i \in DOMAIN tasks : tasks[i] = "done"

-----------------------------------------------------------------------------
(* Retrieval: RetrieverAgent *)

\* str(n) for n >= 0
RECURSIVE IntToStr(_)
IntToStr(n) ==
    LET digit == <<"0", "1", "2", "3", "4", "5", "6", "7", "8", "9">>[(n % 10) + 1]
    IN  IF n < 10 THEN <<digit>> ELSE Append(IntToStr(n \div 10), digit)

\* " ".join(parts)
RECURSIVE Join(_)
Join(parts) ==
    IF parts = <<>> THEN <<>>
    ELSE IF Len(parts) = 1 THEN Head(parts)
    ELSE Head(parts) \o <<" ">> \o Join(Tail(parts))

\* [p for p in parts if p]
RECURSIVE NonEmpty(_)
NonEmpty(parts) ==
    IF parts = <<>> THEN <<>>
    ELSE IF Head(parts) = <<>> THEN NonEmpty(Tail(parts))
    ELSE <<Head(parts)>> \o NonEmpty(Tail(parts))

document_to_text(doc) ==
    IF "ticker" \in DOMAIN doc
    THEN Join(NonEmpty(
            << <<"T", ":", " ">> \o Get(doc, "ticker", <<>>),
               <<"C", ":", " ">> \o Get(doc, "company_name", <<>>),
               <<"S", ":", " ">> \o Get(doc, "sector", <<>>),
               <<"P", ":", " ">> \o (IF "current_price" \in DOMAIN doc
                                     THEN IntToStr(doc.current_price) ELSE <<>>) >>))
    ELSE IF "title" \in DOMAIN doc
    THEN Join(NonEmpty(<<Get(doc, "title", <<>>), Get(doc, "link", <<>>)>>))
    ELSE <<>>

\* The sentence-embedding model, a deterministic function of the text. The
\* vectors are one-dimensional here: the text's character codes, summed.
CharCode(c) ==
    CASE c = "n" -> 1 [] c = "1" -> 2 [] c = "2" -> 5 [] c = "3" -> 11
      [] c = "q" -> 3 [] c = "e" -> 9 [] c = "l" -> 4 [] c = "T" -> 6
      [] OTHER -> 0

RECURSIVE encode(_)
encode(text) ==
    IF text = <<>> THEN <<0>>
    ELSE <<(CharCode(Head(text)) + encode(Tail(text))[1]) % 16>>

\* faiss_index is None until the first successful build
NoIndex == [built |-> FALSE, vectors |-> <<>>]

\* index_documents without the reset of line 28
index_documents_accumulating(store, index, documents, fail_at) ==
    LET n_done    == IF fail_at = 0 THEN Len(documents) ELSE fail_at - 1
        new_store == store \o Take(documents, n_done)
    IN  IF fail_at # 0
        THEN [store |-> new_store, index |-> index, raised |-> <<"EncodeError">>]
        ELSE IF Len(documents) = 0
        THEN [store |-> new_store, index |-> index, raised |-> <<"IndexError">>]
        ELSE [store |-> new_store,
              index |-> [built |-> TRUE,
                         vectors |-> [i \in 1..Len(documents) |->
                                         encode(document_to_text(documents[i]))]],
              raised |-> None]

\* index_documents(documents) on a retriever in state (store, index). The
\* embedding model raises on document number fail_at (0: on none).
index_documents(store, index, documents, fail_at) ==
    LET n_done    == IF fail_at = 0 THEN Len(documents) ELSE fail_at - 1
        new_store == Take(documents, n_done)
    IN  IF fail_at # 0
        THEN [store |-> new_store, index |-> index, raised |-> <<"EncodeError">>]
        ELSE IF Len(documents) = 0
        THEN [store |-> new_store, index |-> index, raised |-> <<"IndexError">>]
        ELSE [store |-> new_store,
              index |-> [built |-> TRUE,
                         vectors |-> [i \in 1..Len(documents) |->
                                         encode(document_to_text(documents[i]))]],
              raised |-> None]

\* squared L2 distance
RECURSIVE L2(_, _)
L2(u, v) ==
    IF u = <<>> THEN 0
    ELSE (Head(u) - Head(v)) * (Head(u) - Head(v)) + L2(Tail(u), Tail(v))

\* IndexFlatL2.search: the ids (from 0) of the k nearest vectors by ascending
\* distance, the lower id first among equals, padded with -1 when fewer than k
RECURSIVE Nearest(_, _, _)
Nearest(vectors, q, ids) ==
    IF ids = {} THEN <<>>
    ELSE LET best == CHOOSE i \in ids : \A j \in ids :
                        \/ L2(vectors[i + 1], q) < L2(vectors[j + 1], q)
                        \/ (L2(vectors[i + 1], q) = L2(vectors[j + 1], q) /\ i <= j)
         IN  <<best>> \o Nearest(vectors, q, ids \ {best})

faiss_search(vectors, q, k) ==
    LET ranked == Nearest(vectors, q, 0..(Len(vectors) - 1))
    IN  [i \in 1..k |-> IF i <= Len(ranked) THEN ranked[i] ELSE -1]

\* the result loop: `if idx < len(store): results.append(store[idx])`, where a
\* negative idx counts from the end of the list and raises on an empty list
RECURSIVE collect_results(_, _)
collect_results(store, ids) ==
    IF ids = <<>> THEN [results |-> <<>>, raised |-> None]
    ELSE LET idx  == Head(ids)
             rest == collect_results(store, Tail(ids))
         IN  IF idx >= Len(store) THEN rest
             ELSE IF idx < 0 /\ Len(store) + idx < 0
             THEN [results |-> <<>>, raised |-> <<"IndexError">>]
             ELSE IF rest.raised # None THEN rest
             ELSE [results |-> <<store[IF idx >= 0 THEN idx + 1 ELSE Len(store) + idx + 1]>>
                               \o rest.results,
                   raised |-> None]

\* semantic_search(q, top_k); encode_ok: whether the embedding model returns
semantic_search(store, index, q, top_k, encode_ok) ==
    IF ~index.built THEN [results |-> <<>>, raised |-> <<"ValueError">>]
    ELSE IF ~encode_ok THEN [results |-> <<>>, raised |-> <<"EncodeError">>]
    ELSE collect_results(store, faiss_search(index.vectors, encode(q), top_k))

RECURSIVE combine_document_sources(_)
combine_document_sources(sources) ==
    IF sources = <<>> THEN <<>>
    ELSE Head(sources) \o combine_document_sources(Tail(sources))

-----------------------------------------------------------------------------
(* Python floats: IEEE 754 binary64, for finite values >= 0. A float is the  *)
(* integer whose bits are m (most significant first, MantissaBits of them,  *)
(* the first one set) times 2^e; 0.0 has no bits. Every operation rounds its *)
(* exact result to nearest, ties to even.                                    *)

MantissaBits == 53

Zero == [m |-> <<>>, e |-> 0]

Zeros(n) == [i \in 1..n |-> 0]

StripZeros(bits) ==
    IF \A i \in DOMAIN bits : bits[i] = 0 THEN <<>>
    ELSE LET first == CHOOSE i \in DOMAIN bits : bits[i] = 1 /\ \A j \in 1..(i - 1) : bits[j] = 0
         IN  SubSeq(bits, first, Len(bits))

\* the arithmetic on bit strings goes LimbBits bits at a time
LimbBits == 16

\* the w low bits of a natural number, most significant first
FixedBits(n, w) == [i \in 1..w |-> (n \div (2 ^ (w - i))) % 2]

\* the bits of a natural number
NatBits(n) == StripZeros(FixedBits(n, 31))

\* the number with the given bits, at most LimbBits of them
RECURSIVE BitsToNat(_)
BitsToNat(bits) ==
    IF bits = <<>> THEN 0
    ELSE 2 * BitsToNat(SubSeq(bits, 1, Len(bits) - 1)) + bits[Len(bits)]

\* bits + 1
Increment(bits) ==
    IF \A i \in DOMAIN bits : bits[i] = 1 THEN <<1>> \o Zeros(Len(bits))
    ELSE LET last == CHOOSE i \in DOMAIN bits :
                        bits[i] = 0 /\ \A j \in (i + 1)..Len(bits) : bits[j] = 1
         IN  [i \in DOMAIN bits |-> IF i < last THEN bits[i] ELSE IF i = last THEN 1 ELSE 0]

\* x + y + carry for bit strings of one length; the result is one bit longer
RECURSIVE AddBits(_, _, _)
AddBits(x, y, carry) ==
    LET n == Len(x)
    IN  IF n <= LimbBits
        THEN FixedBits(BitsToNat(x) + BitsToNat(y) + carry, n + 1)
        ELSE LET low == BitsToNat(SubSeq(x, n - LimbBits + 1, n))
                        + BitsToNat(SubSeq(y, n - LimbBits + 1, n)) + carry
             IN  AddBits(SubSeq(x, 1, n - LimbBits), SubSeq(y, 1, n - LimbBits),
                         low \div (2 ^ LimbBits))
                 \o FixedBits(low, LimbBits)

BigAdd(x, y) ==
    LET n == IF Len(x) > Len(y) THEN Len(x) ELSE Len(y)
    IN  StripZeros(AddBits(Zeros(n - Len(x)) \o x, Zeros(n - Len(y)) \o y, 0))

\* bits * k
RECURSIVE BigMul(_, _)
BigMul(bits, k) ==
    IF k = 0 THEN <<>>
    ELSE LET rest == BigMul(Append(bits, 0), k \div 2)
         IN  IF k % 2 = 1 THEN BigAdd(rest, bits) ELSE rest

\* The float nearest to bits * 2^e (plus, when sticky, a fraction of the last
\* bit's unit)
RoundToFloat(bits0, e, sticky) ==
    LET bits == StripZeros(bits0)
        n    == Len(bits)
    IN  IF n = 0 THEN Zero
        ELSE IF n <= MantissaBits
        THEN [m |-> bits \o Zeros(MantissaBits - n), e |-> e - (MantissaBits - n)]
        ELSE LET kept  == SubSeq(bits, 1, MantissaBits)
                 below == sticky \/ \E i \in (MantissaBits + 2)..n : bits[i] = 1
                 up    == bits[MantissaBits + 1] = 1 /\ (below \/ kept[MantissaBits] = 1)
                 r     == IF up THEN Increment(kept) ELSE kept
             IN  IF Len(r) > MantissaBits
                 THEN [m |-> SubSeq(r, 1, MantissaBits), e |-> e + (n - MantissaBits) + 1]
                 ELSE [m |-> r, e |-> e + (n - MantissaBits)]

\* float(n)
FloatOfNat(n) == RoundToFloat(NatBits(n), 0, FALSE)

\* long division: the next k quotient bits after remainder r, and the remainder
\* they leave
RECURSIVE DivBits(_, _, _)
DivBits(r, b, k) ==
    IF r = 0 THEN Zeros(k)
    ELSE IF k <= LimbBits THEN FixedBits((r * (2 ^ k)) \div b, k)
    ELSE FixedBits((r * (2 ^ LimbBits)) \div b, LimbBits)
         \o DivBits((r * (2 ^ LimbBits)) % b, b, k - LimbBits)

RECURSIVE DivRem(_, _, _)
DivRem(r, b, k) ==
    IF k <= LimbBits THEN (r * (2 ^ k)) % b
    ELSE DivRem((r * (2 ^ LimbBits)) % b, b, k - LimbBits)

\* a / b for naturals a, b with b > 0
FloatDiv(a, b) ==
    LET k == MantissaBits + 2 + Len(NatBits(b))
    IN  RoundToFloat(NatBits(a \div b) \o DivBits(a % b, b, k), 0 - k, DivRem(a % b, b, k) # 0)

\* a float without the zero bits at the end of its mantissa: the same value
Trimmed(x) ==
    IF x.m = <<>> THEN x
    ELSE LET last == CHOOSE i \in DOMAIN x.m :
                        x.m[i] = 1 /\ \A j \in (i + 1)..Len(x.m) : x.m[j] = 0
         IN  [m |-> SubSeq(x.m, 1, last), e |-> x.e + (Len(x.m) - last)]

\* x * k for a natural k
FloatMulNat(x, k) == RoundToFloat(BigMul(Trimmed(x).m, k), Trimmed(x).e, FALSE)

\* x + y
FloatAdd(x, y) ==
    IF x.m = <<>> THEN y
    ELSE IF y.m = <<>> THEN x
    ELSE LET tx  == Trimmed(x)
             ty  == Trimmed(y)
             low == Min(tx.e, ty.e)
         IN  RoundToFloat(BigAdd(tx.m \o Zeros(tx.e - low), ty.m \o Zeros(ty.e - low)),
                          low, FALSE)

\* x <= y
FloatLeq(x, y) ==
    IF x.m = <<>> THEN TRUE
    ELSE IF y.m = <<>> THEN FALSE
    ELSE \/ x.e < y.e
         \/ /\ x.e = y.e
            /\ \/ x.m = y.m
               \/ \E i \in DOMAIN x.m :
                     x.m[i] < y.m[i] /\ \A j \in 1..(i - 1) : x.m[j] = y.m[j]

\* the result of 0.0 / 0.0 on numpy floats
NaN == [nan |-> TRUE]

IsNaN(x) == "nan" \in DOMAIN x

-----------------------------------------------------------------------------
(* Risk analysis: AnalysisAgent.portfolio_risk_analysis *)

RECURSIVE Sum(_)
Sum(xs) == IF xs = <<>> THEN 0 ELSE Head(xs) + Sum(Tail(xs))

\* x < y on floats; every comparison with NaN is False
FloatLess(x, y) == ~IsNaN(x) /\ ~IsNaN(y) /\ ~FloatLeq(y, x)

\* max(x, y) and min(x, y) of Python: the first argument stays unless the
\* second compares greater (smaller)
py_max(x, y) == IF FloatLess(x, y) THEN y ELSE x

py_min(x, y) == IF FloatLess(y, x) THEN y ELSE x

\* np.mean of a non-empty list of naturals
np_mean(xs) == FloatDiv(Sum(xs), Len(xs))

\* np.std of a list; the square root is not computed
np_std(xs) == [std_of |-> xs]

\* the valid_stocks filter without its condition
valid_stocks_unfiltered(stock) == DictValues(stock)

\* lines 18-21: the records without 'error', in dict order
valid_stocks(stock) == SelectSeq(DictValues(stock), LAMBDA rec : ~IsError(rec))

\* lines 40-42: `if pe_ratio:` keeps a P/E that is neither None nor 0
collect_pe_ratios(valid) ==
    LET with_pe == SelectSeq(valid, LAMBDA rec : Get(rec, "pe_ratio", <<0>>) \notin {None, <<0>>})
    IN  [i \in DOMAIN with_pe |-> with_pe[i].pe_ratio[1]]

\* sector_distribution[sector] = sector_distribution.get(sector, 0) + 1, per record
RECURSIVE count_sectors(_, _)
count_sectors(dist, recs) ==
    IF recs = <<>> THEN dist
    ELSE LET sector == Get(Head(recs), "sector", <<"U", "n", "k", "n", "o", "w", "n">>)
         IN  count_sectors(
                 DictSet(dist, sector, (IF DictHas(dist, sector) THEN DictGet(dist, sector) ELSE 0) + 1),
                 Tail(recs))

\* np.log(n) in thousandths, for the stock counts that occur
LnMilli(n) ==
    CASE n = 1 -> 0 [] n = 2 -> 693 [] n = 3 -> 1099 [] n = 4 -> 1386
      [] n = 5 -> 1609 [] n = 6 -> 1792 [] n = 7 -> 1946 [] n = 8 -> 2079

\* line 132, in thousandths
max_possible_entropy(num_sectors) == IF num_sectors > 0 THEN LnMilli(num_sectors) ELSE 1000

\* sum(entropy_scores) times total_stocks, in thousandths:
\* -(c / total) * log(c / total) is (c / total) * (log(total) - log(c))
RECURSIVE entropy_sum(_, _)
entropy_sum(counts, total) ==
    IF counts = <<>> THEN 0
    ELSE Head(counts) * (LnMilli(total) - LnMilli(Head(counts)))
         + entropy_sum(Tail(counts), total)

\* lines 122-135; the logarithms are taken to three decimals
calculate_diversification_score(dist) ==
    LET counts  == DictValues(dist)
        total   == Sum(counts)
        entropy == entropy_sum(counts, total)
        divisor == max_possible_entropy(Len(dist))
        score   == IF dist = <<>> THEN Zero
                   ELSE IF divisor = 0 THEN NaN
                   ELSE FloatDiv(100 * entropy, total * divisor)
    IN  py_min(py_max(score, Zero), FloatOfNat(100))

\* (count / total) * 100
percentage(count, total) == FloatMulNat(FloatDiv(count, total), 100)

\* sorted(..., reverse=True)[0]: the first entry with the largest percentage
most_concentrated(pcts) ==
    pcts[CHOOSE i \in DOMAIN pcts :
            /\ \A j \in DOMAIN pcts : FloatLeq(pcts[j].v, pcts[i].v)
            /\ \A j \in 1..(i - 1) : pcts[j].v # pcts[i].v]

\* lines 148-167
analyze_sector_concentration(dist) ==
    LET total == Sum(DictValues(dist))
        pcts  == [i \in DOMAIN dist |-> [k |-> dist[i].k, v |-> percentage(dist[i].v, total)]]
    IN  [most_concentrated_sector     |-> IF pcts = <<>> THEN <<"N", "/", "A">>
                                          ELSE most_concentrated(pcts).k,
         most_concentrated_percentage |-> IF pcts = <<>> THEN Zero ELSE most_concentrated(pcts).v,
         sector_percentages           |-> pcts]

\* thresholds of _classify_market_cap_distribution, in millions of dollars
LargeCapThreshold == 10000

MidCapThreshold == 2000

\* the classification with a mid tier that leaves out its lower threshold
classify_market_cap_gap(market_caps) ==
    IF market_caps = <<>>
    THEN [large_cap_percentage |-> Zero, mid_cap_percentage |-> Zero,
          small_cap_percentage |-> Zero]
    ELSE LET large_cap == Len(SelectSeq(market_caps, LAMBDA cap : cap >= LargeCapThreshold))
             mid_cap   == Len(SelectSeq(market_caps,
                                 LAMBDA cap : LargeCapThreshold > cap /\ cap > MidCapThreshold))
             small_cap == Len(SelectSeq(market_caps, LAMBDA cap : cap < MidCapThreshold))
             total     == Len(market_caps)
         IN  [large_cap_percentage |-> percentage(large_cap, total),
              mid_cap_percentage   |-> percentage(mid_cap, total),
              small_cap_percentage |-> percentage(small_cap, total)]

\* lines 180-202
classify_market_cap_distribution(market_caps) ==
    IF market_caps = <<>>
    THEN [large_cap_percentage |-> Zero, mid_cap_percentage |-> Zero,
          small_cap_percentage |-> Zero]
    ELSE LET large_cap == Len(SelectSeq(market_caps, LAMBDA cap : cap >= LargeCapThreshold))
             mid_cap   == Len(SelectSeq(market_caps,
                                 LAMBDA cap : LargeCapThreshold > cap /\ cap >= MidCapThreshold))
             small_cap == Len(SelectSeq(market_caps, LAMBDA cap : cap < MidCapThreshold))
             total     == Len(market_caps)
         IN  [large_cap_percentage |-> percentage(large_cap, total),
              mid_cap_percentage   |-> percentage(mid_cap, total),
              small_cap_percentage |-> percentage(small_cap, total)]

\* min(xs) and max(xs) of a non-empty list
ListMin(xs) == CHOOSE x \in {xs[i] : i \in DOMAIN xs} : \A i \in DOMAIN xs : x <= xs[i]

ListMax(xs) == CHOOSE x \in {xs[i] : i \in DOMAIN xs} : \A i \in DOMAIN xs : x >= xs[i]

\* lines 215-242
assess_valuation_health(pe_ratios) ==
    IF pe_ratios = <<>>
    THEN [average_pe_ratio |-> Zero, pe_ratio_range |-> [min |-> 0, max |-> 0],
          valuation_status |-> "Insufficient Data"]
    ELSE LET avg_pe == np_mean(pe_ratios)
         IN  [average_pe_ratio |-> avg_pe,
              pe_ratio_range   |-> [min |-> ListMin(pe_ratios), max |-> ListMax(pe_ratios)],
              valuation_status |->
                 IF FloatLess(avg_pe, FloatOfNat(10)) THEN "Potentially Undervalued"
                 ELSE IF FloatLess(avg_pe, FloatOfNat(20)) THEN "Fairly Valued"
                 ELSE IF FloatLess(avg_pe, FloatOfNat(30)) THEN "Slightly Overvalued"
                 ELSE "Overvalued"]

\* lines 95-109
assess_portfolio_health(market_caps, pe_ratios, dist) ==
    [diversification_score   |-> calculate_diversification_score(dist),
     sector_concentration    |-> analyze_sector_concentration(dist),
     market_cap_distribution |-> classify_market_cap_distribution(market_caps),
     valuation_health        |-> assess_valuation_health(pe_ratios)]

\* lines 18-75
portfolio_risk_analysis(stock) ==
    LET valid       == valid_stocks(stock)
        market_caps == [i \in DOMAIN valid |-> Get(valid[i], "market_cap", 0)]
        prices      == [i \in DOMAIN valid |-> Get(valid[i], "current_price", 0)]
        pe_ratios   == collect_pe_ratios(valid)
        sectors     == count_sectors(<<>>, valid)
    IN  [total_stocks |-> Len(valid),
         risk_metrics |->
            [total_market_cap    |-> Sum(market_caps),
             avg_market_cap      |-> IF market_caps # <<>> THEN np_mean(market_caps) ELSE Zero,
             market_cap_std_dev  |-> IF Len(market_caps) > 1 THEN np_std(market_caps) ELSE Zero,
             avg_price           |-> IF prices # <<>> THEN np_mean(prices) ELSE Zero,
             price_volatility    |-> IF Len(prices) > 1 THEN np_std(prices) ELSE Zero,
             avg_pe_ratio        |-> IF pe_ratios # <<>> THEN np_mean(pe_ratios) ELSE Zero,
             pe_ratio_volatility |-> IF Len(pe_ratios) > 1 THEN np_std(pe_ratios) ELSE Zero,
             sector_distribution |-> sectors],
         portfolio_health_indicators |-> assess_portfolio_health(market_caps, pe_ratios, sectors)]

-----------------------------------------------------------------------------
(* Narrative and voice *)

Apology == <<"Unable", "to", "generate", "market", "brief", "at", "this", "time.">>

\* the prompt is built outside the try: formatting the market cap with ':,'
\* raises when a record without 'error' has no 'market_cap' (default 'N/A')
stocks_summary_raises(stock) ==
    \E i \in DOMAIN stock : ~IsError(stock[i].v) /\ "market_cap" \notin DOMAIN stock[i].v

\* the narrative call without its try/except
generate_narrative_unguarded(stock, llm_ok) ==
    IF stocks_summary_raises(stock) THEN [text |-> None, raised |-> <<"ValueError">>]
    ELSE IF llm_ok THEN [text |-> <<"brief">>, raised |-> None]
    ELSE [text |-> None, raised |-> <<"LLMError">>]

\* llm_ok: whether llm_model.generate_content returns
generate_narrative_with_gemini(stock, llm_ok) ==
    IF stocks_summary_raises(stock) THEN [text |-> None, raised |-> <<"ValueError">>]
    ELSE IF llm_ok THEN [text |-> <<"brief">>, raised |-> None]
    ELSE [text |-> Apology, raised |-> None]

\* VoiceAgent.text_to_speech: the output path, or None when gTTS raises
text_to_speech(text, tts_ok) == IF tts_ok THEN <<"output.wav">> ELSE None

-----------------------------------------------------------------------------
(* AgentCoordinator.process_query, one run on a fresh coordinator *)

Queries == {<<"q">>, <<"e">>}

NoCall == [op |-> "none", q |-> <<>>, top_k |-> 0]

\* neither generate_content (narrative) nor gTTS was called yet
NoCollaborator == [narrative |-> "not called", speech |-> "not called"]

StageOrder ==
    <<"RESOLVE_TICKERS", "FETCH", "MERGE_AND_INDEX", "SEMANTIC_SEARCH",
      "RISK_ANALYSIS", "NARRATE", "VOICE", "DONE">>

Init ==
    /\ pc = "RESOLVE_TICKERS"
    /\ query \in Queries
    /\ tickers = <<>>
    /\ batch_ok = TRUE
    /\ qi = 0
    /\ stock_data = <<>>
    /\ news_tasks = <<>>
    /\ news_data = <<>>
    /\ combined_docs = <<>>
    /\ document_store = <<>>
    /\ faiss_index = NoIndex
    /\ contextual_results = <<>>
    /\ risk_analysis = None
    /\ narrative_response = None
    /\ voice_response = None
    /\ raised = None
    /\ stages = <<"RESOLVE_TICKERS">>
    /\ quote_log = <<>>
    /\ news_log = <<>>
    /\ last_call = NoCall
    /\ documents_arg = <<>>
    /\ builds = <<>>
    /\ collab_log = NoCollaborator
    /\ runs = <<>>

\* pc moves to stage s, or the run ends with exception exc
Advance(s, exc) ==
    IF exc = None
    THEN pc' = s /\ stages' = Append(stages, s) /\ raised' = None
    ELSE pc' = "RAISED" /\ stages' = stages /\ raised' = exc

\* line 52
ResolveTickers ==
    /\ pc = "RESOLVE_TICKERS"
    /\ \E resp \in Responses : tickers' = extract_tickers_with_gemini(resp)
    /\ Advance("FETCH", None)
    /\ UNCHANGED <<documents_arg, builds, collab_log, runs>>
    /\ UNCHANGED <<query, batch_ok, qi, stock_data, news_tasks, news_data, combined_docs,
                   document_store, faiss_index, contextual_results, risk_analysis,
                   narrative_response, voice_response, quote_log, news_log, last_call>>

\* line 55, yf.download: on an exception every ticker is marked failed
BatchDownload ==
    /\ pc = "FETCH" /\ qi = 0
    /\ \E ok \in BOOLEAN :
          /\ batch_ok' = ok
          /\ IF ok
             THEN qi' = 1 /\ stock_data' = stock_data
             ELSE qi' = Len(tickers) + 1 /\ stock_data' = batch_failed(stock_data, tickers)
    /\ UNCHANGED <<documents_arg, builds, collab_log, runs>>
    /\ UNCHANGED <<pc, query, tickers, news_tasks, news_data, combined_docs, document_store,
                   faiss_index, contextual_results, risk_analysis, narrative_response,
                   voice_response, raised, stages, quote_log, news_log, last_call>>

\* line 55, one pass of the loop over tickers
FetchTicker ==
    /\ pc = "FETCH" /\ qi \in 1..Len(tickers)
    /\ \E outcome \in QuoteOutcomes :
          /\ stock_data' = fetch_ticker(stock_data, tickers[qi], outcome)
          /\ quote_log' = DictSet(quote_log, tickers[qi], outcome)
    /\ qi' = qi + 1
    /\ UNCHANGED <<documents_arg, builds, collab_log, runs>>
    /\ UNCHANGED <<pc, query, tickers, batch_ok, news_tasks, news_data, combined_docs,
                   document_store, faiss_index, contextual_results, risk_analysis,
                   narrative_response, voice_response, raised, stages, news_log, last_call>>

\* line 58, asyncio.gather creates one task per ticker
GatherNews ==
    /\ pc = "FETCH" /\ qi = Len(tickers) + 1 /\ news_tasks = <<>>
    /\ news_tasks' = [i \in 1..Len(tickers) |-> "pending"]
    /\ UNCHANGED <<documents_arg, builds, collab_log, runs>>
    /\ UNCHANGED <<pc, query, tickers, batch_ok, qi, stock_data, news_data, combined_docs,
                   document_store, faiss_index, contextual_results, risk_analysis,
                   narrative_response, voice_response, raised, stages, quote_log, news_log,
                   last_call>>

\* The event loop runs the tasks in creation order; a task has no await, so it
\* runs to its end in one step.
NewsTask ==
    /\ pc = "FETCH"
    /\ \E i \in DOMAIN news_tasks :
          /\ ready_in_creation_order(news_tasks, i)
          /\ \E outcome \in NewsOutcomes :
                /\ news_data' = fetch_news_for_ticker(news_data, tickers[i], outcome)
                /\ news_log' = DictSet(news_log, tickers[i], outcome)
          /\ news_tasks' = [news_tasks EXCEPT ![i] = "done"]
    /\ UNCHANGED <<documents_arg, builds, collab_log, runs>>
    /\ UNCHANGED <<pc, query, tickers, batch_ok, qi, stock_data, combined_docs,
                   document_store, faiss_index, contextual_results, risk_analysis,
                   narrative_response, voice_response, raised, stages, quote_log, last_call>>

\* line 58, the await on gather returns
GatherReturn ==
    /\ pc = "FETCH" /\ news_tasks # <<>>
    /\ gather_settled(news_tasks)
    /\ Advance("MERGE_AND_INDEX", None)
    /\ UNCHANGED <<documents_arg, builds, collab_log, runs>>
    /\ UNCHANGED <<query, tickers, batch_ok, qi, stock_data, news_tasks, news_data,
                   combined_docs, document_store, faiss_index, contextual_results,
                   risk_analysis, narrative_response, voice_response, quote_log, news_log,
                   last_call>>

\* lines 61-65
MergeAndIndex ==
    /\ pc = "MERGE_AND_INDEX"
    /\ LET docs == combine_document_sources(
                       <<DictValues(stock_data), Flatten(DictValues(news_data))>>)
       IN  /\ combined_docs' = docs
           /\ \E fail_at \in 0..Len(docs) :
                 LET r == index_documents(document_store, faiss_index, docs, fail_at)
                 IN  /\ document_store' = r.store
                     /\ faiss_index' = r.index
                     /\ Advance("SEMANTIC_SEARCH", r.raised)
    /\ UNCHANGED <<documents_arg, builds, collab_log, runs>>
    /\ UNCHANGED <<query, tickers, batch_ok, qi, stock_data, news_tasks, news_data,
                   contextual_results, risk_analysis, narrative_response, voice_response,
                   quote_log, news_log, last_call>>

DefaultTopK == 3

\* line 68
SemanticSearch ==
    /\ pc = "SEMANTIC_SEARCH"
    /\ \E encode_ok \in BOOLEAN :
          LET r == semantic_search(document_store, faiss_index, query, DefaultTopK, encode_ok)
          IN  /\ contextual_results' = r.results
              /\ Advance("RISK_ANALYSIS", r.raised)
    /\ UNCHANGED <<documents_arg, builds, collab_log, runs>>
    /\ UNCHANGED <<query, tickers, batch_ok, qi, stock_data, news_tasks, news_data,
                   combined_docs, document_store, faiss_index, risk_analysis,
                   narrative_response, voice_response, quote_log, news_log, last_call>>

\* line 71
RiskAnalysis ==
    /\ pc = "RISK_ANALYSIS"
    /\ risk_analysis' = portfolio_risk_analysis(stock_data)
    /\ Advance("NARRATE", None)
    /\ UNCHANGED <<documents_arg, builds, collab_log, runs>>
    /\ UNCHANGED <<query, tickers, batch_ok, qi, stock_data, news_tasks, news_data,
                   combined_docs, document_store, faiss_index, contextual_results,
                   narrative_response, voice_response, quote_log, news_log, last_call>>

\* lines 74-79
Narrate ==
    /\ pc = "NARRATE"
    /\ \E llm_ok \in BOOLEAN :
          LET r == generate_narrative_with_gemini(stock_data, llm_ok)
          IN  /\ narrative_response' = r.text
              /\ collab_log' = [collab_log EXCEPT !.narrative =
                                   IF stocks_summary_raises(stock_data) THEN "not called"
                                   ELSE IF llm_ok THEN "returned" ELSE "raised"]
              /\ Advance("VOICE", r.raised)
    /\ UNCHANGED <<documents_arg, builds, runs>>
    /\ UNCHANGED <<query, tickers, batch_ok, qi, stock_data, news_tasks, news_data,
                   combined_docs, document_store, faiss_index, contextual_results,
                   risk_analysis, voice_response, quote_log, news_log, last_call>>

\* lines 82-90
Voice ==
    /\ pc = "VOICE"
    /\ \E tts_ok \in BOOLEAN :
          /\ voice_response' = text_to_speech(narrative_response, tts_ok)
          /\ collab_log' = [collab_log EXCEPT !.speech = IF tts_ok THEN "returned" ELSE "raised"]
    /\ Advance("DONE", None)
    /\ UNCHANGED <<documents_arg, builds, runs>>
    /\ UNCHANGED <<query, tickers, batch_ok, qi, stock_data, news_tasks, news_data,
                   combined_docs, document_store, faiss_index, contextual_results,
                   risk_analysis, narrative_response, quote_log, news_log, last_call>>

Next ==
    \/ ResolveTickers
    \/ BatchDownload
    \/ FetchTicker
    \/ GatherNews
    \/ NewsTask
    \/ GatherReturn
    \/ MergeAndIndex
    \/ SemanticSearch
    \/ RiskAnalysis
    \/ Narrate
    \/ Voice

Spec == Init /\ [][Next]_vars

-----------------------------------------------------------------------------
(* Direct use of one RetrieverAgent: any sequence of index_documents and     *)
(* semantic_search calls                                                     *)

\* a news item, a news item with its own link, and a failed quote record
DirectDocs ==
    {[title |-> <<"n", "1">>, link |-> <<"l">>, source |-> <<"h">>],
     [title |-> <<"e">>, link |-> <<>>, source |-> <<"h">>],
     ErrorRecord("info unavailable")}

InitRetriever ==
    /\ pc = "RETRIEVER"
    /\ query = <<>>
    /\ tickers = <<>>
    /\ batch_ok = TRUE
    /\ qi = 0
    /\ stock_data = <<>>
    /\ news_tasks = <<>>
    /\ news_data = <<>>
    /\ combined_docs = <<>>
    /\ document_store = <<>>
    /\ faiss_index = NoIndex
    /\ contextual_results = <<>>
    /\ risk_analysis = None
    /\ narrative_response = None
    /\ voice_response = None
    /\ raised = None
    /\ stages = <<>>
    /\ quote_log = <<>>
    /\ news_log = <<>>
    /\ last_call = NoCall
    /\ documents_arg = <<>>
    /\ builds = <<>>
    /\ collab_log = NoCollaborator
    /\ runs = <<>>

CallIndexDocuments ==
    /\ pc = "RETRIEVER"
    /\ \E docs \in SeqsUpTo(DirectDocs, MaxDocs) :
       \E fail_at \in 0..Len(docs) :
          LET r == index_documents(document_store, faiss_index, docs, fail_at)
          IN  /\ document_store' = r.store
              /\ faiss_index' = r.index
              /\ raised' = r.raised
    /\ last_call' = [op |-> "index_documents", q |-> <<>>, top_k |-> 0]
    /\ UNCHANGED <<documents_arg, builds, collab_log, runs>>
    /\ UNCHANGED <<pc, query, tickers, batch_ok, qi, stock_data, news_tasks, news_data,
                   combined_docs, contextual_results, risk_analysis, narrative_response,
                   voice_response, stages, quote_log, news_log>>

CallSemanticSearch ==
    /\ pc = "RETRIEVER"
    /\ \E q \in Queries :
       \E top_k \in 1..MaxTopK :
       \E encode_ok \in BOOLEAN :
          LET r == semantic_search(document_store, faiss_index, q, top_k, encode_ok)
          IN  /\ contextual_results' = r.results
              /\ raised' = r.raised
              /\ last_call' = [op |-> "semantic_search", q |-> q, top_k |-> top_k]
    /\ UNCHANGED <<documents_arg, builds, collab_log, runs>>
    /\ UNCHANGED <<pc, query, tickers, batch_ok, qi, stock_data, news_tasks, news_data,
                   combined_docs, document_store, faiss_index, risk_analysis,
                   narrative_response, voice_response, stages, quote_log, news_log>>

NextRetriever ==
    \/ CallIndexDocuments
    \/ CallSemanticSearch

SpecRetriever == InitRetriever /\ [][NextRetriever]_vars

-----------------------------------------------------------------------------
(* Repeated index_documents calls with one document list on a fresh          *)
(* RetrieverAgent, with semantic_search calls in between                     *)

\* most index_documents calls made with the list
MaxBuilds == 2

InitIndexing ==
    /\ pc = "INDEXING"
    /\ query = <<>>
    /\ tickers = <<>>
    /\ batch_ok = TRUE
    /\ qi = 0
    /\ stock_data = <<>>
    /\ news_tasks = <<>>
    /\ news_data = <<>>
    /\ combined_docs = <<>>
    /\ document_store = <<>>
    /\ faiss_index = NoIndex
    /\ contextual_results = <<>>
    /\ risk_analysis = None
    /\ narrative_response = None
    /\ voice_response = None
    /\ raised = None
    /\ stages = <<>>
    /\ quote_log = <<>>
    /\ news_log = <<>>
    /\ last_call = NoCall
    /\ documents_arg \in SeqsUpTo(DirectDocs, MaxDocs)
    /\ builds = <<>>
    /\ collab_log = NoCollaborator
    /\ runs = <<>>

BuildIndex ==
    /\ pc = "INDEXING" /\ Len(builds) < MaxBuilds
    /\ \E fail_at \in 0..Len(documents_arg) :
          LET r == index_documents(document_store, faiss_index, documents_arg, fail_at)
          IN  /\ document_store' = r.store
              /\ faiss_index' = r.index
              /\ raised' = r.raised
              /\ builds' = Append(builds, r)
    /\ last_call' = [op |-> "index_documents", q |-> <<>>, top_k |-> 0]
    /\ UNCHANGED <<pc, query, tickers, batch_ok, qi, stock_data, news_tasks, news_data,
                   combined_docs, contextual_results, risk_analysis, narrative_response,
                   voice_response, stages, quote_log, news_log, documents_arg, collab_log,
                   runs>>

SearchBuilt ==
    /\ pc = "INDEXING" /\ builds # <<>>
    /\ \E q \in Queries :
       \E top_k \in 1..MaxTopK :
       \E encode_ok \in BOOLEAN :
          LET r == semantic_search(document_store, faiss_index, q, top_k, encode_ok)
          IN  /\ contextual_results' = r.results
              /\ raised' = r.raised
              /\ last_call' = [op |-> "semantic_search", q |-> q, top_k |-> top_k]
    /\ UNCHANGED <<pc, query, tickers, batch_ok, qi, stock_data, news_tasks, news_data,
                   combined_docs, document_store, faiss_index, risk_analysis,
                   narrative_response, voice_response, stages, quote_log, news_log,
                   documents_arg, builds, collab_log, runs>>

NextIndexing ==
    \/ BuildIndex
    \/ SearchBuilt

SpecIndexing == InitIndexing /\ [][NextIndexing]_vars

-----------------------------------------------------------------------------
(* Two process_query runs on one AgentCoordinator, as coroutines on one      *)
(* event loop. The agents are created once in __init__, so both runs use the *)
(* same RetrieverAgent. A run gives up the loop only where an await suspends.*)

\* the two runs
Runs == {1, 2}

\* the texts the ticker model answers with
RunResponses ==
    {[raises |-> FALSE, text |-> <<"a">>], [raises |-> FALSE, text |-> <<"a", "a">>],
     [raises |-> FALSE, text |-> <<"a", ",", "a">>]}

NewRun(q) ==
    [pc |-> "START", query |-> q, tickers |-> <<>>, stock_data |-> <<>>,
     news_tasks |-> <<>>, news_data |-> <<>>, combined_docs |-> <<>>,
     contextual_results |-> <<>>, searched |-> None]

InitTwoRuns ==
    /\ pc = "TWO_RUNS"
    /\ query = <<>>
    /\ tickers = <<>>
    /\ batch_ok = TRUE
    /\ qi = 0
    /\ stock_data = <<>>
    /\ news_tasks = <<>>
    /\ news_data = <<>>
    /\ combined_docs = <<>>
    /\ document_store = <<>>
    /\ faiss_index = NoIndex
    /\ contextual_results = <<>>
    /\ risk_analysis = None
    /\ narrative_response = None
    /\ voice_response = None
    /\ raised = None
    /\ stages = <<>>
    /\ quote_log = <<>>
    /\ news_log = <<>>
    /\ last_call = NoCall
    /\ documents_arg = <<>>
    /\ builds = <<>>
    /\ collab_log = NoCollaborator
    /\ runs \in [Runs -> {NewRun(q) : q \in Queries}]

\* a scheduler that may switch runs at every statement, as threads would
suspended_anywhere(stage) == TRUE

\* Where a run does not hold the event loop: before its first step, while it
\* awaits gather (line 58, the one await of process_query that suspends: the
\* other awaited coroutines contain no await), and after its end
suspended(stage) == stage \in {"START", "FETCH", "DONE", "RAISED"}

\* run r may take its next step: no other run is in the middle of a segment
MayStep(r) == \A o \in DOMAIN runs \ {r} : suspended(runs[o].pc)

\* the run that made the last index_documents call, and the one that made the
\* last such call that built an index
StoreOwner == builds[Len(builds)].run

IndexOwner ==
    LET built == SelectSeq(builds, LAMBDA b : b.raised = None)
    IN  IF built = <<>> THEN 0 ELSE built[Len(built)].run

TwoRunsUnchanged ==
    UNCHANGED <<pc, query, tickers, batch_ok, qi, stock_data, news_tasks, news_data,
                combined_docs, contextual_results, risk_analysis, narrative_response,
                voice_response, raised, stages, quote_log, news_log, last_call,
                documents_arg, collab_log>>

\* lines 52-58, up to the await on gather
RunStart(r) ==
    /\ pc = "TWO_RUNS" /\ runs[r].pc = "START" /\ MayStep(r)
    /\ \E resp \in RunResponses :
       \E ok \in BOOLEAN :
          LET ts == extract_tickers_with_gemini(resp)
          IN  \E outs \in [1..Len(ts) -> QuoteOutcomes] :
                 runs' = [runs EXCEPT ![r] =
                            [@ EXCEPT !.pc = "FETCH",
                                      !.tickers = ts,
                                      !.stock_data = IF ok THEN fetch_each(<<>>, ts, outs)
                                                     ELSE batch_failed(<<>>, ts),
                                      !.news_tasks = [i \in 1..Len(ts) |-> "pending"]]]
    /\ UNCHANGED <<document_store, faiss_index, builds>>
    /\ TwoRunsUnchanged

\* one fetch_news_for_ticker task of run r
RunNewsTask(r) ==
    /\ pc = "TWO_RUNS" /\ runs[r].pc = "FETCH" /\ MayStep(r)
    /\ \E i \in DOMAIN runs[r].news_tasks :
          /\ ready_in_creation_order(runs[r].news_tasks, i)
          /\ \E outcome \in NewsOutcomes :
                runs' = [runs EXCEPT ![r] =
                           [@ EXCEPT !.news_data = fetch_news_for_ticker(
                                                      @, runs[r].tickers[i], outcome),
                                     !.news_tasks = [@ EXCEPT ![i] = "done"]]]
    /\ UNCHANGED <<document_store, faiss_index, builds>>
    /\ TwoRunsUnchanged

\* the await on gather returns; lines 61-65
RunMergeAndIndex(r) ==
    /\ pc = "TWO_RUNS" /\ runs[r].pc = "FETCH" /\ MayStep(r)
    /\ runs[r].news_tasks # <<>> /\ gather_settled(runs[r].news_tasks)
    /\ LET docs == combine_document_sources(
                       <<DictValues(runs[r].stock_data), Flatten(DictValues(runs[r].news_data))>>)
       IN  \E fail_at \in 0..Len(docs) :
              LET res == index_documents(document_store, faiss_index, docs, fail_at)
              IN  /\ document_store' = res.store
                  /\ faiss_index' = res.index
                  /\ builds' = Append(builds, [run |-> r, raised |-> res.raised])
                  /\ runs' = [runs EXCEPT ![r] =
                                [@ EXCEPT !.combined_docs = docs,
                                          !.pc = IF res.raised = None THEN "SEMANTIC_SEARCH"
                                                 ELSE "RAISED"]]
    /\ TwoRunsUnchanged

\* line 68
RunSemanticSearch(r) ==
    /\ pc = "TWO_RUNS" /\ runs[r].pc = "SEMANTIC_SEARCH" /\ MayStep(r)
    /\ \E encode_ok \in BOOLEAN :
          LET res == semantic_search(document_store, faiss_index, runs[r].query,
                                     DefaultTopK, encode_ok)
          IN  runs' = [runs EXCEPT ![r] =
                         [@ EXCEPT !.contextual_results = res.results,
                                   !.searched = [store_by |-> StoreOwner, index_by |-> IndexOwner],
                                   !.pc = IF res.raised = None THEN "RISK_ANALYSIS"
                                          ELSE "RAISED"]]
    /\ UNCHANGED <<document_store, faiss_index, builds>>
    /\ TwoRunsUnchanged

\* lines 71-90: nothing there touches the retriever
RunFinish(r) ==
    /\ pc = "TWO_RUNS" /\ runs[r].pc = "RISK_ANALYSIS" /\ MayStep(r)
    /\ runs' = [runs EXCEPT ![r] = [@ EXCEPT !.pc = "DONE"]]
    /\ UNCHANGED <<document_store, faiss_index, builds>>
    /\ TwoRunsUnchanged

NextTwoRuns ==
    \E r \in Runs :
       \/ RunStart(r)
       \/ RunNewsTask(r)
       \/ RunMergeAndIndex(r)
       \/ RunSemanticSearch(r)
       \/ RunFinish(r)

SpecTwoRuns == InitTwoRuns /\ [][NextTwoRuns]_vars

-----------------------------------------------------------------------------
(* portfolio_risk_analysis on a batch of quote records *)

\* most records of a batch
MaxBatch == 3

\* Quote records as fetch_stock_data builds them and as a caller may pass
\* them: failed; at the large-cap threshold; at the mid-cap threshold; without
\* a sector and with a P/E of 0; just under the large-cap threshold with a P/E
\* of None; without market cap and P/E; far above the thresholds
BatchRecords ==
    {ErrorRecord("info unavailable"),
     [current_price |-> 150, sector |-> <<"T", "e", "c", "h">>,
      market_cap |-> LargeCapThreshold, pe_ratio |-> <<30>>],
     [current_price |-> 50, sector |-> <<"F", "i", "n">>,
      market_cap |-> MidCapThreshold, pe_ratio |-> <<10>>],
     [current_price |-> 10, market_cap |-> MidCapThreshold - 1, pe_ratio |-> <<0>>],
     [current_price |-> 150, sector |-> <<"T", "e", "c", "h">>,
      market_cap |-> LargeCapThreshold - 1, pe_ratio |-> None],
     [current_price |-> 0, sector |-> <<"F", "i", "n">>],
     [current_price |-> 150, sector |-> <<"N", "/", "A">>,
      market_cap |-> 2500000, pe_ratio |-> <<9>>]}

\* the dict with keys T1, T2, ... for a list of records
Batch(recs) == [i \in DOMAIN recs |-> [k |-> <<"T">> \o IntToStr(i), v |-> recs[i]]]

InitAnalysis ==
    /\ pc = "ANALYSIS"
    /\ query = <<>>
    /\ tickers = <<>>
    /\ batch_ok = TRUE
    /\ qi = 0
    /\ \E recs \in SeqsUpTo(BatchRecords, MaxBatch) : stock_data = Batch(recs)
    /\ news_tasks = <<>>
    /\ news_data = <<>>
    /\ combined_docs = <<>>
    /\ document_store = <<>>
    /\ faiss_index = NoIndex
    /\ contextual_results = <<>>
    /\ risk_analysis = None
    /\ narrative_response = None
    /\ voice_response = None
    /\ raised = None
    /\ stages = <<>>
    /\ quote_log = <<>>
    /\ news_log = <<>>
    /\ last_call = NoCall
    /\ documents_arg = <<>>
    /\ builds = <<>>
    /\ collab_log = NoCollaborator
    /\ runs = <<>>

AnalyseBatch ==
    /\ pc = "ANALYSIS"
    /\ risk_analysis' = portfolio_risk_analysis(stock_data)
    /\ pc' = "ANALYSED"
    /\ UNCHANGED <<query, tickers, batch_ok, qi, stock_data, news_tasks, news_data,
                   combined_docs, document_store, faiss_index, contextual_results,
                   narrative_response, voice_response, raised, stages, quote_log, news_log,
                   last_call, documents_arg, builds, collab_log, runs>>

NextAnalysis == AnalyseBatch

SpecAnalysis == InitAnalysis /\ [][NextAnalysis]_vars

-----------------------------------------------------------------------------
(* Properties of process_query (specification Spec) *)

Range(f) == {f[i] : i \in DOMAIN f}

\* the FETCH stage is over: process_query went on to a later stage
FetchOver == Len(stages) >= 3

\* C1: process_query never raises: no run ends with an exception leaving it.
C1_NeverRaises == pc # "RAISED"

\* the record and the news list the provider outcome logged for ticker t stands for
ExpectedQuote(t) ==
    LET o == DictGet(quote_log, t)
    IN  IF o.ok THEN QuoteRecord(t, o.info, o.price) ELSE ErrorRecord(o.error)

FullNewsList(t) ==
    parse_articles(Take(DictGet(news_log, t).headings, ArticlesPerSource), SourceUrl(t))

\* C2: after FETCH, a ticker whose quote fetch failed holds a failed record and
\* one whose news fetch failed holds an empty news list, while every ticker whose
\* own fetch succeeded holds its valid quote record and its own news list.
C2_FailureIsolation ==
    FetchOver =>
       /\ \A t \in DictKeys(quote_log) :
             DictHas(stock_data, t) /\ DictGet(stock_data, t) = ExpectedQuote(t)
       /\ \A t \in DictKeys(news_log) :
             /\ DictHas(news_data, t)
             /\ DictGet(news_data, t) =
                   (IF scrape_raised(DictGet(news_log, t)) THEN <<>> ELSE FullNewsList(t))

\* The isolation itself: after FETCH every ticker's entries are decided by its
\* own latest fetch alone; a failed news fetch keeps the items scraped before
\* the failure.
FetchIsolation ==
    FetchOver =>
       /\ \A t \in DictKeys(quote_log) :
             DictHas(stock_data, t) /\ DictGet(stock_data, t) = ExpectedQuote(t)
       /\ \A t \in DictKeys(news_log) :
             DictHas(news_data, t) /\ DictGet(news_data, t) = FullNewsList(t)

\* C3 as claimed, on lists without an empty symbol: after FETCH, stock_data and
\* news_data hold exactly len(tickers) entries each.
C3_OnePerListPosition ==
    (FetchOver /\ \A i \in DOMAIN tickers : tickers[i] # <<>>) =>
       Len(stock_data) = Len(tickers) /\ Len(news_data) = Len(tickers)

\* C3: after FETCH, stock_data and news_data hold exactly one entry for each
\* distinct symbol of the ticker list, whatever fetches failed.
C3_OnePerDistinctTicker ==
    FetchOver =>
       /\ DictKeys(stock_data) = Range(tickers)
       /\ Len(stock_data) = Cardinality(Range(tickers))
       /\ DictKeys(news_data) = Range(tickers)
       /\ Len(news_data) = Cardinality(Range(tickers))

\* a finished FETCH over a list with a repeated, non-empty symbol, in which a quote fetch
\* and a news fetch failed
C3_Witness ==
    /\ pc = "MERGE_AND_INDEX"
    /\ Cardinality(Range(tickers)) < Len(tickers)
    /\ \A i \in DOMAIN tickers : tickers[i] # <<>>
    /\ \E i \in DOMAIN stock_data : IsError(stock_data[i].v)
    /\ \E i \in DOMAIN news_log : scrape_raised(news_log[i].v)

\* C4: the stages entered are an initial part of the fixed order, each once,
\* and MERGE_AND_INDEX is entered only when the quote loop has passed every
\* ticker and every news task given to gather is done.
C4_StageOrder ==
    /\ Len(stages) <= Len(StageOrder)
    /\ stages = Take(StageOrder, Len(stages))
    /\ pc \in {stages[Len(stages)], "RAISED"}
    /\ FetchOver =>
          /\ qi = Len(tickers) + 1
          /\ Len(news_tasks) = Len(tickers)
          /\ \A i \in DOMAIN news_tasks : news_tasks[i] = "done"
          /\ DictKeys(stock_data) = Range(tickers)
          /\ DictKeys(news_data) = Range(tickers)

\* a run that went through every stage with several tickers
C4_Witness ==
    /\ pc = "DONE"
    /\ stages = StageOrder
    /\ Len(tickers) > 1
    /\ Len(news_tasks) = Len(tickers)

\* C5: the ticker list handed to FETCH is never empty and holds no empty symbol.
C5_NoEmptySymbol ==
    pc # "RESOLVE_TICKERS" =>
       tickers # <<>> /\ \A i \in DOMAIN tickers : tickers[i] # <<>>

AllEmptyText(docs) == \A i \in DOMAIN docs : document_to_text(docs[i]) = <<>>

\* C6: when the merged documents all have empty search text, index_documents
\* builds no index over them, no index error ends the run, and the stages
\* after SEMANTIC_SEARCH work with an empty context list.
C6_EmptyIndexDegrades ==
    (combined_docs # <<>> /\ AllEmptyText(combined_docs)) =>
       /\ ~faiss_index.built
       /\ ~(pc = "RAISED" /\ raised \in {<<"IndexError">>, <<"ValueError">>})
       /\ Len(stages) >= 5 => contextual_results = <<>>

\* C7: no exception of the SEMANTIC_SEARCH stage leaves process_query.
C7_SearchFailureAbsorbed ==
    ~(pc = "RAISED" /\ stages[Len(stages)] = "SEMANTIC_SEARCH")

\* C10: no failed quote record is in the document store or among the search
\* results.
C10_NoFailedRecordIndexed ==
    /\ \A i \in DOMAIN document_store : ~IsError(document_store[i])
    /\ \A i \in DOMAIN contextual_results : ~IsError(contextual_results[i])

\* C18: when the narrative model raises, narrative_response is the fixed
\* apology and the run goes on to VOICE and DONE instead of ending with the
\* exception; when the speech engine raises, voice_response is None and the run
\* is DONE.
C18_NarrativeAndVoiceDegrade ==
    /\ collab_log.narrative = "raised" =>
          /\ narrative_response = Apology
          /\ pc \in {"VOICE", "DONE"}
          /\ raised = None
    /\ collab_log.speech = "raised" =>
          /\ voice_response = None
          /\ pc = "DONE"
          /\ raised = None

\* a finished run in which both the narrative model and the speech engine raised
C18_Witness ==
    /\ pc = "DONE"
    /\ stages = StageOrder
    /\ collab_log.narrative = "raised"
    /\ collab_log.speech = "raised"
    /\ narrative_response = Apology
    /\ voice_response = None

\* the symbols of a ticker list in order of first occurrence
RECURSIVE Distinct(_)
Distinct(ts) ==
    IF ts = <<>> THEN <<>>
    ELSE LET front == Distinct(SubSeq(ts, 1, Len(ts) - 1))
         IN  IF ts[Len(ts)] \in Range(front) THEN front ELSE Append(front, ts[Len(ts)])

\* MERGE_AND_INDEX has assigned combined_docs
Merged ==
    \/ Len(stages) >= 4
    \/ pc = "RAISED" /\ stages[Len(stages)] = "MERGE_AND_INDEX"

\* C20: the merged documents are the quote records of the resolved tickers in
\* list order (a repeated symbol at its first place) followed by the news items
\* grouped by ticker in the same order, whatever the fetches returned.
C20_MergeOrder ==
    Merged =>
       LET ts == Distinct(tickers)
       IN  combined_docs =
              [i \in DOMAIN ts |-> DictGet(stock_data, ts[i])]
              \o Flatten([i \in DOMAIN ts |-> DictGet(news_data, ts[i])])

\* merged documents of two tickers, each with a quote record and news of its own
C20_Witness ==
    /\ Merged
    /\ Cardinality(Range(tickers)) > 1
    /\ \A i \in DOMAIN news_data : news_data[i].v # <<>>
    /\ \E i \in DOMAIN stock_data : ~IsError(stock_data[i].v)
    /\ Len(combined_docs) > Len(stock_data) + 1

-----------------------------------------------------------------------------
(* Properties of the RetrieverAgent (specification SpecRetriever) *)

\* the index holds, position by position, the embeddings of the stored documents
IndexMatchesStore ==
    /\ Len(faiss_index.vectors) = Len(document_store)
    /\ \A i \in DOMAIN document_store :
          faiss_index.vectors[i] = encode(document_to_text(document_store[i]))

Orderings(n) == {p \in [1..n -> 1..n] : \A i, j \in 1..n : p[i] = p[j] => i = j}

\* C8: a semantic_search that returns gives at most top_k documents and, when
\* top_k >= len(document_store), gives every stored document exactly once in
\* ascending order of distance to the query.
C8_SearchReturnsStoreOnce ==
    (last_call.op = "semantic_search" /\ raised = None /\ IndexMatchesStore) =>
       /\ Len(contextual_results) <= last_call.top_k
       /\ last_call.top_k >= Len(document_store) =>
             \E p \in Orderings(Len(document_store)) :
                /\ contextual_results = [i \in 1..Len(document_store) |-> document_store[p[i]]]
                /\ \A i \in 1..(Len(document_store) - 1) :
                      L2(faiss_index.vectors[p[i]], encode(last_call.q))
                         <= L2(faiss_index.vectors[p[i + 1]], encode(last_call.q))

\* C9: after every call the index holds exactly the embeddings of the stored
\* documents, in order.
C9_IndexMatchesStore == IndexMatchesStore

-----------------------------------------------------------------------------
(* Properties of repeated indexing (specification SpecIndexing) *)

AllReturned == \A i \in DOMAIN builds : builds[i].raised = None

\* C11: after an index_documents call that returns, document_store is exactly
\* the input documents with non-empty search text, in input order, and the
\* index holds one vector per stored document.
C11_EmptyTextDiscarded ==
    (builds # <<>> /\ builds[Len(builds)].raised = None) =>
       /\ document_store = SelectSeq(documents_arg, LAMBDA doc : document_to_text(doc) # <<>>)
       /\ Len(faiss_index.vectors) = Len(document_store)

\* C12: when index_documents returned each time it was called with the list,
\* the store, the index and the result of every semantic_search that returns
\* are those of the first call: a further call with the same list changes
\* nothing.
C12_RebuildIdempotent ==
    (builds # <<>> /\ AllReturned) =>
       /\ document_store = builds[1].store
       /\ faiss_index = builds[1].index
       /\ (last_call.op = "semantic_search" /\ raised = None) =>
             contextual_results =
                semantic_search(builds[1].store, builds[1].index,
                                last_call.q, last_call.top_k, TRUE).results

\* a search that returned documents after the list was indexed twice
C12_Witness ==
    /\ Len(builds) = 2
    /\ AllReturned
    /\ last_call.op = "semantic_search"
    /\ raised = None
    /\ Len(documents_arg) > 1
    /\ Len(contextual_results) > 1

-----------------------------------------------------------------------------
(* Properties of the risk analysis (specification SpecAnalysis) *)

\* the records of the batch without an 'error' key
ValidRecords == SelectSeq(DictValues(stock_data), LAMBDA rec : ~IsError(rec))

RECURSIVE SumOver(_, _)
SumOver(recs, key) ==
    IF recs = <<>> THEN 0 ELSE Get(Head(recs), key, 0) + SumOver(Tail(recs), key)

\* C13: total_stocks is the number of records without 'error',
\* total_market_cap is the sum over those records only, and the counts of
\* sector_distribution sum to total_stocks, the records without a sector
\* being counted under 'Unknown'.
C13_FailedRecordsIgnored ==
    pc = "ANALYSED" =>
       LET dist == risk_analysis.risk_metrics.sector_distribution
           unknown == <<"U", "n", "k", "n", "o", "w", "n">>
           no_sector == Len(SelectSeq(ValidRecords, LAMBDA rec : "sector" \notin DOMAIN rec))
       IN  /\ risk_analysis.total_stocks = Len(ValidRecords)
           /\ risk_analysis.risk_metrics.total_market_cap = SumOver(ValidRecords, "market_cap")
           /\ Sum(DictValues(dist)) = risk_analysis.total_stocks
           /\ (IF DictHas(dist, unknown) THEN DictGet(dist, unknown) ELSE 0) = no_sector

\* an analysed batch with a failed record, a record without a sector and a
\* record with one
C13_Witness ==
    /\ pc = "ANALYSED"
    /\ \E i \in DOMAIN stock_data : IsError(stock_data[i].v)
    /\ \E i \in DOMAIN ValidRecords : "sector" \notin DOMAIN ValidRecords[i]
    /\ \E i \in DOMAIN ValidRecords : "sector" \in DOMAIN ValidRecords[i]

\* the three tier percentages of the result, added up in floating point
TierSum ==
    LET d == risk_analysis.portfolio_health_indicators.market_cap_distribution
    IN  FloatAdd(FloatAdd(d.large_cap_percentage, d.mid_cap_percentage), d.small_cap_percentage)

NoTierPercentage ==
    LET d == risk_analysis.portfolio_health_indicators.market_cap_distribution
    IN  d.large_cap_percentage = Zero /\ d.mid_cap_percentage = Zero
        /\ d.small_cap_percentage = Zero

\* C14 as claimed: the three tier percentages sum to 100 when there is a valid
\* quote, and all three are 0 when there is none.
C14_TiersSumTo100 ==
    pc = "ANALYSED" =>
       IF ValidRecords # <<>> THEN TierSum = FloatOfNat(100) ELSE NoTierPercentage

\* 100 - 2^-44 and 100 + 2^-44: four units of the last place around 100.0
HundredLow ==
    [m |-> <<1, 1, 0, 0, 0, 1, 1>>
           \o [i \in 1..(MantissaBits - 7) |-> IF i <= MantissaBits - 9 THEN 1 ELSE 0],
     e |-> 7 - MantissaBits]

HundredHigh ==
    [m |-> <<1, 1, 0, 0, 1, 0, 0>>
           \o [i \in 1..(MantissaBits - 7) |-> IF i = MantissaBits - 9 THEN 1 ELSE 0],
     e |-> 7 - MantissaBits]

\* the number of valid records whose market cap (0 when absent) is in [low, high)
TierCount(low, high) ==
    Len(SelectSeq(ValidRecords,
                  LAMBDA rec : low <= Get(rec, "market_cap", 0) /\ Get(rec, "market_cap", 0) < high))

\* C14: every valid quote's market cap is in exactly one tier, each tier's
\* percentage is its share of the valid quotes, and the three percentages sum
\* to 100 up to floating-point rounding (within 2^-44) when there is a valid
\* quote; all three are 0 when there is none.
C14_TiersPartition ==
    pc = "ANALYSED" =>
       LET d     == risk_analysis.portfolio_health_indicators.market_cap_distribution
           n     == Len(ValidRecords)
           small == TierCount(0, MidCapThreshold)
           mid   == TierCount(MidCapThreshold, LargeCapThreshold)
           large == n - small - mid
       IN  IF n = 0 THEN NoTierPercentage
           ELSE /\ \A i \in DOMAIN ValidRecords :
                      LET cap == Get(ValidRecords[i], "market_cap", 0)
                      IN  Cardinality({t \in {"large", "mid", "small"} :
                                         \/ t = "large" /\ cap >= LargeCapThreshold
                                         \/ t = "mid" /\ cap >= MidCapThreshold
                                                      /\ cap < LargeCapThreshold
                                         \/ t = "small" /\ cap < MidCapThreshold}) = 1
                /\ d.large_cap_percentage = FloatMulNat(FloatDiv(large, n), 100)
                /\ d.mid_cap_percentage = FloatMulNat(FloatDiv(mid, n), 100)
                /\ d.small_cap_percentage = FloatMulNat(FloatDiv(small, n), 100)
                /\ FloatLeq(HundredLow, TierSum)
                /\ FloatLeq(TierSum, HundredHigh)

\* an analysed batch of three valid quotes at the tier thresholds whose
\* percentages do not add up to 100.0
C14_Witness ==
    /\ pc = "ANALYSED"
    /\ Len(ValidRecords) = 3
    /\ \E i \in DOMAIN ValidRecords : Get(ValidRecords[i], "market_cap", 0) = MidCapThreshold
    /\ \E i \in DOMAIN ValidRecords : Get(ValidRecords[i], "market_cap", 0) = LargeCapThreshold
    /\ TierSum # FloatOfNat(100)

\* C15: the diversification score is a number within [0, 100] for every batch,
\* and exactly 0 when the batch has no sector or exactly one sector.
C15_DiversificationScore ==
    pc = "ANALYSED" =>
       LET score == risk_analysis.portfolio_health_indicators.diversification_score
           dist  == risk_analysis.risk_metrics.sector_distribution
       IN  /\ ~IsNaN(score)
           /\ FloatLeq(Zero, score) /\ FloatLeq(score, FloatOfNat(100))
           /\ Len(dist) <= 1 => score = Zero

\* the valid records that carry a P/E value, 0 included
WithPE ==
    SelectSeq(ValidRecords, LAMBDA rec : "pe_ratio" \in DOMAIN rec /\ rec.pe_ratio # None)

RECURSIVE SumPE(_)
SumPE(recs) == IF recs = <<>> THEN 0 ELSE Head(recs).pe_ratio[1] + SumPE(Tail(recs))

\* C16: valuation_status follows the mean P/E over exactly the valid records
\* whose P/E is present, a P/E of 0 included: below 10 'Potentially
\* Undervalued', [10, 20) 'Fairly Valued', [20, 30) 'Slightly Overvalued', 30
\* and above 'Overvalued'; it is 'Insufficient Data' exactly when no valid
\* record has a P/E value.
C16_ValuationByMeanPE ==
    pc = "ANALYSED" =>
       LET n      == Len(WithPE)
           total  == SumPE(WithPE)
           status == risk_analysis.portfolio_health_indicators.valuation_health.valuation_status
       IN  status = (IF n = 0 THEN "Insufficient Data"
                     ELSE IF total < 10 * n THEN "Potentially Undervalued"
                     ELSE IF total < 20 * n THEN "Fairly Valued"
                     ELSE IF total < 30 * n THEN "Slightly Overvalued"
                     ELSE "Overvalued")

\* what an analysis of no valid record gives: zero counts, sums and averages,
\* no sector, 'N/A', zero percentages, 'Insufficient Data'
EmptyPlaceholders ==
    LET m == risk_analysis.risk_metrics
        h == risk_analysis.portfolio_health_indicators
    IN  /\ risk_analysis.total_stocks = 0
        /\ m.total_market_cap = 0
        /\ m.avg_market_cap = Zero /\ m.avg_price = Zero /\ m.avg_pe_ratio = Zero
        /\ m.market_cap_std_dev = Zero /\ m.price_volatility = Zero
        /\ m.pe_ratio_volatility = Zero
        /\ m.sector_distribution = <<>>
        /\ h.diversification_score = Zero
        /\ h.sector_concentration.most_concentrated_sector = <<"N", "/", "A">>
        /\ h.sector_concentration.most_concentrated_percentage = Zero
        /\ NoTierPercentage
        /\ h.valuation_health.valuation_status = "Insufficient Data"

\* an analysis of a batch without a valid record gives the placeholders and
\* divides by no zero
EmptyBatchDegrades ==
    (pc = "ANALYSED" /\ ValidRecords = <<>>) =>
       /\ EmptyPlaceholders
       /\ max_possible_entropy(Len(risk_analysis.risk_metrics.sector_distribution)) # 0

\* C17: for every batch the analysis returns a bundle without dividing by
\* zero, and for a batch without a valid record the bundle holds the
\* placeholders.
C17_NeverFails ==
    pc = "ANALYSED" =>
       /\ ValidRecords = <<>> => EmptyPlaceholders
       /\ max_possible_entropy(Len(risk_analysis.risk_metrics.sector_distribution)) # 0
       /\ ~IsNaN(risk_analysis.portfolio_health_indicators.diversification_score)

-----------------------------------------------------------------------------
(* Properties of two runs on one coordinator (specification SpecTwoRuns) *)

\* C19: a run's semantic search works on the store and the index that the same
\* run built, and every document it returns is one of the documents that run
\* merged from its own quotes and news.
C19_RunIsolation ==
    \A r \in DOMAIN runs :
       runs[r].searched # None =>
          /\ runs[r].searched.store_by = r
          /\ runs[r].searched.index_by = r
          /\ \A i \in DOMAIN runs[r].contextual_results :
                runs[r].contextual_results[i] \in Range(runs[r].combined_docs)

\* both runs finished with search results over different documents, the second
\* run having started and indexed while the first awaited its news
C19_Witness ==
    /\ \A r \in DOMAIN runs : runs[r].pc = "DONE" /\ runs[r].contextual_results # <<>>
    /\ runs[1].combined_docs # runs[2].combined_docs
    /\ Range(runs[1].combined_docs) \cap Range(runs[2].combined_docs) = {}
    /\ builds = <<[run |-> 2, raised |-> None], [run |-> 1, raised |-> None]>>

====
